---------------------------- MODULE Spec2Model ----------------------------
(***************************************************************************)
(* The DevWell assistant chat widget (static/js/assistant_chat.js).        *)
(*                                                                         *)
(* JavaScript strings are sequences of one-character strings, so that      *)
(* trim(), the three regular-expression replacements of formatText and     *)
(* includes() are computed character by character.                         *)
(***************************************************************************)
EXTENDS Naturals, Sequences, FiniteSets

VARIABLES
    open,        \* chatBox.classList contains 'open'
    reindexed,   \* the closure variable `reindexed`
    inputValue,  \* value of #assistant-input
    messages,    \* children of #assistant-messages: [from, html]
    metaToken,   \* <meta name="csrf-token">: absent, or its content
    reindexReqs, \* POST /assistant/reindex requests issued so far
    exchanges,   \* invocations of the submit handler that passed the guard
    opens,       \* closed-to-open transitions made by the toggle, counted
                 \*   up to MaxOpens
    last,        \* the most recent event, with the widget state
                 \*   {open, reindexed} it found and its input
    fmtText,     \* formatText studied alone: its argument,
    fmtHtml,     \*   its result,
    fmtPc        \*   and whether it has been applied

widgetVars == <<open, reindexed, inputValue, messages, metaToken,
                reindexReqs, exchanges, opens, last>>
fmtVars == <<fmtText, fmtHtml, fmtPc>>
vars == <<open, reindexed, inputValue, messages, metaToken,
          reindexReqs, exchanges, opens, last, fmtText, fmtHtml, fmtPc>>

---------------------------------------------------------------------------
(* Bounds of the model. *)

\* Number of submits with non-empty text in one page lifetime.
MaxSubmits == 2
\* Saturation of the counter of closed-to-open transitions.
MaxOpens == 3
\* Length of the enumerated arguments of formatText.
MaxLen == 4
\* Number of bullet lines in the structured arguments of formatText.
MaxItems == 3

---------------------------------------------------------------------------
(* String literals of the source. *)

LI_OPEN == <<"<","l","i",">">>
LI_CLOSE == <<"<","/","l","i",">">>
UL_OPEN == <<"<","u","l",">">>
UL_CLOSE == <<"<","/","u","l",">">>
LIST_BREAK == <<"<","/","u","l",">","<","b","r",">","<","u","l",">">>
STRONG_OPEN == <<"<","s","t","r","o","n","g",">">>
STRONG_CLOSE == <<"<","/","s","t","r","o","n","g",">">>
ANSWER_TOKEN == <<"A","n","s","w","e","r",":">>
RESPONSE_TOKEN == <<"R","e","s","p","o","n","s","e",":">>
SORRY_TEXT == <<"S","o","r","r","y",","," ","I"," ","h","a","d"," ","t","r","o","u","b","l","e"," ","a","n","s","w","e","r","i","n","g",".">>
ERROR_TEXT == <<"E","r","r","o","r"," ","c","o","n","t","a","c","t","i","n","g"," ","a","s","s","i","s","t","a","n","t",".">>

\* Characters the regular-expression atom `.` does not match.
LineTerminators == {"\n", "\r"}
\* Characters String.prototype.trim strips.
WhiteSpace == {" ", "\t", "\n", "\r"}

---------------------------------------------------------------------------
(* String helpers. *)

\* Whether `pat` occurs in `s` starting at index i.
StartsWithAt(s, i, pat) ==
    /\ i + Len(pat) - 1 <= Len(s)
    /\ \A k \in 1..Len(pat) : s[i + k - 1] = pat[k]

\* String.prototype.includes
Includes(s, pat) == \E i \in 1..(Len(s) + 1) : StartsWithAt(s, i, pat)

\* trim left out: the raw value of the input is used.
trimNothing(s) == s

\* String.prototype.trim
trim(s) ==
    LET keep == {i \in 1..Len(s) : s[i] \notin WhiteSpace}
    IN  IF keep = {} THEN <<>>
        ELSE LET lo == CHOOSE i \in keep : \A j \in keep : i <= j
                 hi == CHOOSE i \in keep : \A j \in keep : j <= i
             IN  SubSeq(s, lo, hi)

---------------------------------------------------------------------------
(* formatText, lines 27-38. *)

\* `\* (.+)` at index j: "* " followed by at least one character of the line.
BulletAt(s, j) ==
    /\ j + 2 <= Len(s)
    /\ s[j] = "*"
    /\ s[j + 1] = " "
    /\ s[j + 2] \notin LineTerminators

\* Last index of the greedy `.+` that starts at index g.
LineEnd(s, g) ==
    CHOOSE e \in g..Len(s) :
        /\ \A k \in g..e : s[k] \notin LineTerminators
        /\ (e = Len(s) \/ s[e + 1] \in LineTerminators)

\* The pattern without its optional leading newline, /\* (.+)/.
MatchListItemNoNewline(s, i) ==
    IF BulletAt(s, i)
    THEN [matched |-> TRUE, group |-> i + 2, last |-> LineEnd(s, i + 2)]
    ELSE [matched |-> FALSE, group |-> 0, last |-> 0]

\* One attempt of /\n?\* (.+)/ at index i: the optional newline is tried
\* first (greedy), then the match without it.
MatchListItem(s, i) ==
    IF s[i] = "\n" /\ BulletAt(s, i + 1)
    THEN [matched |-> TRUE, group |-> i + 3, last |-> LineEnd(s, i + 3)]
    ELSE IF BulletAt(s, i)
    THEN [matched |-> TRUE, group |-> i + 2, last |-> LineEnd(s, i + 2)]
    ELSE [matched |-> FALSE, group |-> 0, last |-> 0]

\* Smallest member of a non-empty set of indices.
Min(S) == CHOOSE i \in S : \A j \in S : i <= j

\* .replace(/\n?\* (.+)/g, '<li>$1</li>') from index i on: the text up to
\* the leftmost match is copied, the match is replaced, and the search
\* resumes behind it.
RECURSIVE ReplaceListItems(_, _)
ReplaceListItems(s, i) ==
    LET at == {p \in i..Len(s) : MatchListItem(s, p).matched}
    IN  IF at = {} THEN SubSeq(s, i, Len(s))
        ELSE LET p == Min(at)
                 m == MatchListItem(s, p)
             IN  SubSeq(s, i, p - 1)
                     \o LI_OPEN \o SubSeq(s, m.group, m.last) \o LI_CLOSE
                     \o ReplaceListItems(s, m.last + 1)

\* /(Answer:|Response:)/ at index p: the token matched, or <<>>.
EmphasisAt(s, p) ==
    IF StartsWithAt(s, p, ANSWER_TOKEN) THEN ANSWER_TOKEN
    ELSE IF StartsWithAt(s, p, RESPONSE_TOKEN) THEN RESPONSE_TOKEN
    ELSE <<>>

\* .replace(/(Answer:|Response:)/g, '<strong>$1</strong>') from index i on.
RECURSIVE ReplaceEmphasis(_, _)
ReplaceEmphasis(s, i) ==
    LET at == {p \in i..Len(s) : EmphasisAt(s, p) # <<>>}
    IN  IF at = {} THEN SubSeq(s, i, Len(s))
        ELSE LET p == Min(at)
                 tok == EmphasisAt(s, p)
             IN  SubSeq(s, i, p - 1)
                     \o STRONG_OPEN \o tok \o STRONG_CLOSE
                     \o ReplaceEmphasis(s, p + Len(tok))

\* Last index of the greedy run of newlines that starts at index i.
NewlineRunEnd(s, i) ==
    CHOOSE e \in i..Len(s) :
        /\ \A k \in i..e : s[k] = "\n"
        /\ (e = Len(s) \/ s[e + 1] # "\n")

\* /\n{2,}/ at index p.
BreakAt(s, p) == p + 1 <= Len(s) /\ s[p] = "\n" /\ s[p + 1] = "\n"

\* .replace(/\n{2,}/g, '</ul><br><ul>') from index i on.
RECURSIVE ReplaceBreaks(_, _)
ReplaceBreaks(s, i) ==
    LET at == {p \in i..Len(s) : BreakAt(s, p)}
    IN  IF at = {} THEN SubSeq(s, i, Len(s))
        ELSE LET p == Min(at)
             IN  SubSeq(s, i, p - 1) \o LIST_BREAK
                     \o ReplaceBreaks(s, NewlineRunEnd(s, p) + 1)

\* The chain of the three replacements, lines 29-32.
ReplaceChain(text) ==
    ReplaceBreaks(ReplaceEmphasis(ReplaceListItems(text, 1), 1), 1)

\* A wrapper that opens the list container and never closes it.
formatTextNoClose(text) ==
    LET html == ReplaceChain(text)
    IN  IF Includes(html, LI_OPEN) THEN UL_OPEN \o html ELSE html

\* formatText, lines 27-38: the three replaces, then the list container
\* around the result if it includes '<li>'.
formatText(text) ==
    LET html == ReplaceChain(text)
    IN  IF Includes(html, LI_OPEN) THEN UL_OPEN \o html \o UL_CLOSE ELSE html

---------------------------------------------------------------------------
(* Arguments of formatText: every string over a small alphabet up to       *)
(* MaxLen, and texts built of bullet lines.                                *)

Alphabet == {"*", " ", "\n", "a"}

RECURSIVE StringsUpTo(_)
StringsUpTo(n) ==
    IF n = 0 THEN {<<>>}
    ELSE LET shorter == StringsUpTo(n - 1)
         IN  shorter \cup {Append(s, c) : s \in shorter, c \in Alphabet}

\* Non-empty items, none holding a line terminator or an emphasised token.
Items == {<<"a">>, <<"b">>, <<"2"," ","*"," ","3">>, <<"*"," ","c">>}

RECURSIVE ItemLists(_)
ItemLists(n) ==
    IF n = 0 THEN {<<>>}
    ELSE LET shorter == ItemLists(n - 1)
         IN  shorter \cup {Append(l, it) : l \in shorter, it \in Items}

\* n lines "* <item>" joined by "\n".
RECURSIVE BulletText(_)
BulletText(items) ==
    IF items = <<>> THEN <<>>
    ELSE IF Len(items) = 1 THEN <<"*", " ">> \o items[1]
    ELSE <<"*", " ">> \o items[1] \o <<"\n">> \o BulletText(Tail(items))

\* The markup of n list items in one row.
RECURSIVE ListItemsMarkup(_)
ListItemsMarkup(items) ==
    IF items = <<>> THEN <<>>
    ELSE LI_OPEN \o items[1] \o LI_CLOSE \o ListItemsMarkup(Tail(items))

SampleTexts == {
    <<"A","n","s","w","e","r",":"," ","*"," ","a">>,
    <<"R","e","s","p","o","n","s","e",":","\n","\n","o","k">>,
    <<"*"," ","a","\n","\n","*"," ","b">>,
    <<"*"," ","a","\n","\n","\n","*"," ","b">>,
    <<"2"," ","*"," ","3">>,
    <<"<","l","i",">">>,
    <<"*"," ","a","\r","\n","*"," ","b">> }

FormatInputs ==
    StringsUpTo(MaxLen) \cup {BulletText(l) : l \in ItemLists(MaxItems)}
        \cup SampleTexts

---------------------------------------------------------------------------
(* The page and the server, as the widget sees them. *)

\* The page's <meta name="csrf-token">, if any.
MetaTags == {[present |-> FALSE, content |-> <<>>],
             [present |-> TRUE, content |-> <<"t","k">>]}

\* What the user may have typed when the form is submitted.
InputValues == {<<>>, <<" "," ">>, <<" ","*"," ","a"," ">>}

\* JSON values of the `answer` field.
JsonString(str) == [type |-> "string", str |-> str, num |-> 0]
JsonNumber(n) == [type |-> "number", str |-> <<>>, num |-> n]
JsonNull == [type |-> "null", str |-> <<>>, num |-> 0]
JsonUndefined == [type |-> "undefined", str |-> <<>>, num |-> 0]

\* Response bodies of POST /assistant/chat: not JSON, the JSON value null,
\* or a JSON object with or without an `answer` field.
NonJsonBody == [kind |-> "nonjson", hasAnswer |-> FALSE, answer |-> JsonUndefined]
NullBody == [kind |-> "null", hasAnswer |-> FALSE, answer |-> JsonUndefined]
ObjectBody(v) == [kind |-> "object", hasAnswer |-> TRUE, answer |-> v]
EmptyObjectBody == [kind |-> "object", hasAnswer |-> FALSE, answer |-> JsonUndefined]
NoBody == [kind |-> "none", hasAnswer |-> FALSE, answer |-> JsonUndefined]

Bodies == {NonJsonBody, NullBody, EmptyObjectBody,
           ObjectBody(JsonString(<<>>)),
           ObjectBody(JsonString(<<"*"," ","a","\n","*"," ","b">>)),
           ObjectBody(JsonNull),
           ObjectBody(JsonNumber(0)),
           ObjectBody(JsonNumber(5))}

---------------------------------------------------------------------------
(* Helpers of the handlers. *)

\* The record of an event: its kind, the widget state {open, reindexed} it
\* found, its input (the value of #assistant-input, the exchange, the
\* response body), and for a toggle whether the event before it was a
\* toggle too (run = 2) or not (run = 1).
Event(ev, input, xid, body) ==
    [ev |-> ev, open |-> open, reindexed |-> reindexed,
     input |-> input, xid |-> xid, body |-> body,
     run |-> IF ev # "toggle" THEN 0 ELSE IF last.ev = "toggle" THEN 2 ELSE 1]

\* The counter of closed-to-open transitions saturates at MaxOpens.
Counted(n) == IF n < MaxOpens THEN n + 1 ELSE n

\* The texts the widget may pass to appendMessage, each with its markup:
\* formatText computed once for each of them.
RenderedTexts ==
    InputValues \cup {trim(v) : v \in InputValues}
        \cup {ERROR_TEXT, SORRY_TEXT} \cup {b.answer.str : b \in Bodies}

FormatTable == {<<t, formatText(t)>> : t \in RenderedTexts}

\* msg.innerHTML = formatText(text), line 43.
innerHTML(text) ==
    IF \E p \in FormatTable : p[1] = text
    THEN (CHOOSE p \in FormatTable : p[1] = text)[2]
    ELSE formatText(text)

\* appendMessage, lines 40-46.
appendMessage(list, text, from) ==
    Append(list, [from |-> from, html |-> innerHTML(text)])

\* getCsrf, lines 48-51.
getCsrf == IF metaToken.present THEN metaToken.content ELSE <<>>

\* triggerReindex up to its await, lines 53-59: the request is issued.
triggerReindex(reqs) ==
    Append(reqs, [csrf |-> getCsrf, status |-> "pending"])

\* JavaScript truthiness of a JSON value.
Truthy(v) ==
    \/ v.type = "string" /\ v.str # <<>>
    \/ v.type = "number" /\ v.num # 0

\* data.answer ?? '...': the fallback for undefined and null alone.
AnswerOrFallbackNullish(data) ==
    IF data.answer.type \in {"undefined", "null"}
    THEN JsonString(SORRY_TEXT) ELSE data.answer

\* data.answer || 'Sorry, I had trouble answering.', line 97.
AnswerOrFallback(data) ==
    IF Truthy(data.answer) THEN data.answer ELSE JsonString(SORRY_TEXT)

\* Lines 96-101 for a response whose body is `body`: the text of the bot
\* message.  res.json() rejects on a body that is not JSON; data.answer
\* throws on null; formatText throws on a value that has no replace method.
\* Each of them is caught at line 98.
ChatReplyText(body) ==
    IF body.kind = "nonjson" THEN ERROR_TEXT
    ELSE IF body.kind = "null" THEN ERROR_TEXT
    ELSE IF AnswerOrFallback(body).type # "string" THEN ERROR_TEXT
    ELSE AnswerOrFallback(body).str

---------------------------------------------------------------------------
(* The events. *)

WidgetInit ==
    /\ open = FALSE
    /\ reindexed = FALSE
    /\ inputValue = <<>>
    /\ messages = <<>>
    /\ reindexReqs = <<>>
    /\ exchanges = <<>>
    /\ opens = 0
    /\ last = [ev |-> "load", open |-> FALSE, reindexed |-> FALSE,
               input |-> <<>>, xid |-> 0, body |-> NoBody, run |-> 0]

\* The toggle handler without `reindexed = true`.
ToggleClickNoFlag ==
    LET opened == ~open
    IN  /\ open' = opened
        /\ IF opened /\ ~reindexed
           THEN /\ reindexReqs' = triggerReindex(reindexReqs)
                /\ UNCHANGED reindexed
           ELSE UNCHANGED <<reindexed, reindexReqs>>
        /\ opens' = IF opened THEN Counted(opens) ELSE opens
        /\ last' = Event("toggle", <<>>, 0, NoBody)
        /\ UNCHANGED <<inputValue, messages, metaToken, exchanges,
                       fmtText, fmtHtml, fmtPc>>

\* The toggle handler with classList.add in place of classList.toggle.
ToggleClickAdd ==
    LET opened == TRUE
    IN  /\ open' = opened
        /\ IF opened /\ ~reindexed
           THEN /\ reindexed' = TRUE
                /\ reindexReqs' = triggerReindex(reindexReqs)
           ELSE UNCHANGED <<reindexed, reindexReqs>>
        /\ opens' = IF ~open THEN Counted(opens) ELSE opens
        /\ last' = Event("toggle", <<>>, 0, NoBody)
        /\ UNCHANGED <<inputValue, messages, metaToken, exchanges,
                       fmtText, fmtHtml, fmtPc>>

\* toggleBtn click handler, lines 65-71.
ToggleClick ==
    LET opened == ~open
    IN  /\ open' = opened
        /\ IF opened /\ ~reindexed
           THEN /\ reindexed' = TRUE
                /\ reindexReqs' = triggerReindex(reindexReqs)
           ELSE UNCHANGED <<reindexed, reindexReqs>>
        /\ opens' = IF opened THEN Counted(opens) ELSE opens
        /\ last' = Event("toggle", <<>>, 0, NoBody)
        /\ UNCHANGED <<inputValue, messages, metaToken, exchanges,
                       fmtText, fmtHtml, fmtPc>>

\* The close handler with classList.toggle in place of classList.remove.
CloseClickToggle ==
    /\ open' = ~open
    /\ last' = Event("close", <<>>, 0, NoBody)
    /\ UNCHANGED <<reindexed, inputValue, messages, metaToken, reindexReqs,
                   exchanges, opens, fmtText, fmtHtml, fmtPc>>

\* assistant-close click handler, lines 73-75.
CloseClick ==
    /\ open' = FALSE
    /\ last' = Event("close", <<>>, 0, NoBody)
    /\ UNCHANGED <<reindexed, inputValue, messages, metaToken, reindexReqs,
                   exchanges, opens, fmtText, fmtHtml, fmtPc>>

\* triggerReindex with a catch block that resets the flag for a retry.
ReindexSettleRollback(outcome) ==
    /\ \E i \in 1..Len(reindexReqs) :
          /\ reindexReqs[i].status = "pending"
          /\ reindexReqs' = [reindexReqs EXCEPT ![i].status = outcome]
    /\ reindexed' = (outcome # "failed")
    /\ last' = Event("reindexSettle", <<>>, 0, NoBody)
    /\ UNCHANGED <<open, inputValue, messages, metaToken,
                   exchanges, opens, fmtText, fmtHtml, fmtPc>>

\* triggerReindex with a catch block that reports the failure in the panel.
ReindexSettleSurfaced(outcome) ==
    /\ \E i \in 1..Len(reindexReqs) :
          /\ reindexReqs[i].status = "pending"
          /\ reindexReqs' = [reindexReqs EXCEPT ![i].status = outcome]
    /\ messages' = IF outcome = "failed"
                   THEN appendMessage(messages, ERROR_TEXT, "bot")
                   ELSE messages
    /\ last' = Event("reindexSettle", <<>>, 0, NoBody)
    /\ UNCHANGED <<open, reindexed, inputValue, metaToken,
                   exchanges, opens, fmtText, fmtHtml, fmtPc>>

\* The awaited fetch of triggerReindex settles, lines 55-62: a rejection is
\* caught and logged to the console.
ReindexSettle(outcome) ==
    /\ \E i \in 1..Len(reindexReqs) :
          /\ reindexReqs[i].status = "pending"
          /\ reindexReqs' = [reindexReqs EXCEPT ![i].status = outcome]
    /\ last' = Event("reindexSettle", <<>>, 0, NoBody)
    /\ UNCHANGED <<open, reindexed, inputValue, messages, metaToken,
                   exchanges, opens, fmtText, fmtHtml, fmtPc>>

\* The record of a handler invocation that has sent its request.
Fetching(text, userIdx) ==
    [text |-> text, pc |-> "fetch", csrf |-> metaToken.content, sent |-> 1,
     replies |-> 0, userIdx |-> userIdx, botIdx |-> 0]

\* The record of a handler invocation that failed before sending.
FailedEarly(text, userIdx, botIdx) ==
    [text |-> text, pc |-> "done", csrf |-> <<>>, sent |-> 0,
     replies |-> 1, userIdx |-> userIdx, botIdx |-> botIdx]

\* The submit handler echoing input.value in place of the trimmed text.
SubmitUntrimmedEcho(value) ==
    LET text == trim(value)
        withUser == appendMessage(messages, value, "user")
    IN  /\ last' = Event("submit", value,
                          IF text = <<>> THEN 0 ELSE Len(exchanges) + 1, NoBody)
        /\ IF text = <<>>
           THEN /\ inputValue' = value
                /\ UNCHANGED <<messages, exchanges>>
           ELSE /\ Len(exchanges) < MaxSubmits
                /\ inputValue' = <<>>
                /\ IF metaToken.present
                   THEN /\ messages' = withUser
                        /\ exchanges' = Append(exchanges,
                              Fetching(text, Len(withUser)))
                   ELSE /\ messages' = appendMessage(withUser, ERROR_TEXT, "bot")
                        /\ exchanges' = Append(exchanges,
                              FailedEarly(text, Len(withUser), Len(withUser) + 1))
        /\ UNCHANGED <<open, reindexed, metaToken, reindexReqs, opens,
                       fmtText, fmtHtml, fmtPc>>

\* assistant-form submit handler up to its first await, lines 77-95, with
\* `value` in #assistant-input.  Without a csrf-token meta tag line 86
\* throws before fetch is called, and the catch block of lines 98-101 runs
\* in the same turn.
Submit(value) ==
    LET text == trim(value)
        withUser == appendMessage(messages, text, "user")
    IN  /\ last' = Event("submit", value,
                          IF text = <<>> THEN 0 ELSE Len(exchanges) + 1, NoBody)
        /\ IF text = <<>>
           THEN /\ inputValue' = value
                /\ UNCHANGED <<messages, exchanges>>
           ELSE /\ Len(exchanges) < MaxSubmits
                /\ inputValue' = <<>>
                /\ IF metaToken.present
                   THEN /\ messages' = withUser
                        /\ exchanges' = Append(exchanges,
                              Fetching(text, Len(withUser)))
                   ELSE /\ messages' = appendMessage(withUser, ERROR_TEXT, "bot")
                        /\ exchanges' = Append(exchanges,
                              FailedEarly(text, Len(withUser), Len(withUser) + 1))
        /\ UNCHANGED <<open, reindexed, metaToken, reindexReqs, opens,
                       fmtText, fmtHtml, fmtPc>>

\* The bot message put at the top of the list (prepend for appendChild).
RepliedPrepend(i, text) ==
    /\ messages' = <<[from |-> "bot", html |-> innerHTML(text)]>> \o messages
    /\ exchanges' = [exchanges EXCEPT ![i].pc = "done",
                                      ![i].replies = @ + 1,
                                      ![i].botIdx = 1]

\* The exchange's bot message is appended and its handler ends.
Replied(i, text) ==
    /\ messages' = appendMessage(messages, text, "bot")
    /\ exchanges' = [exchanges EXCEPT ![i].pc = "done",
                                      ![i].replies = @ + 1,
                                      ![i].botIdx = Len(messages) + 1]

\* A handler that answers a rejected fetch by sending the request again.
FetchRejectRetry(i) ==
    /\ exchanges[i].pc = "fetch"
    /\ exchanges' = [exchanges EXCEPT ![i].sent = @ + 1]
    /\ exchanges[i].sent < 2
    /\ last' = Event("fetchReject", <<>>, i, NoBody)
    /\ UNCHANGED <<open, reindexed, inputValue, messages, metaToken,
                   reindexReqs, opens, fmtText, fmtHtml, fmtPc>>

\* A catch block that ends the handler without a message.
FetchRejectSilent(i) ==
    /\ exchanges[i].pc = "fetch"
    /\ exchanges' = [exchanges EXCEPT ![i].pc = "done"]
    /\ last' = Event("fetchReject", <<>>, i, NoBody)
    /\ UNCHANGED <<open, reindexed, inputValue, messages, metaToken,
                   reindexReqs, opens, fmtText, fmtHtml, fmtPc>>

\* The awaited fetch of exchange i rejects (network error), lines 87, 98-101.
FetchReject(i) ==
    /\ exchanges[i].pc = "fetch"
    /\ Replied(i, ERROR_TEXT)
    /\ last' = Event("fetchReject", <<>>, i, NoBody)
    /\ UNCHANGED <<open, reindexed, inputValue, metaToken, reindexReqs,
                   opens, fmtText, fmtHtml, fmtPc>>

\* The awaited fetch of exchange i resolves with a response, lines 87-96;
\* res.json() is called and awaited.
FetchResolve(i) ==
    /\ exchanges[i].pc = "fetch"
    /\ exchanges' = [exchanges EXCEPT ![i].pc = "json"]
    /\ last' = Event("fetchResolve", <<>>, i, NoBody)
    /\ UNCHANGED <<open, reindexed, inputValue, messages, metaToken,
                   reindexReqs, opens, fmtText, fmtHtml, fmtPc>>

\* The awaited res.json() of exchange i settles on a response whose body is
\* `body`, lines 96-101.
JsonSettle(i, body) ==
    /\ exchanges[i].pc = "json"
    /\ Replied(i, ChatReplyText(body))
    /\ last' = Event("jsonSettle", <<>>, i, body)
    /\ UNCHANGED <<open, reindexed, inputValue, metaToken, reindexReqs,
                   opens, fmtText, fmtHtml, fmtPc>>

Init ==
    /\ WidgetInit
    /\ metaToken \in MetaTags
    /\ fmtText = <<>>
    /\ fmtHtml = <<>>
    /\ fmtPc = "idle"

Next ==
    \/ ToggleClick
    \/ CloseClick
    \/ \E outcome \in {"ok", "failed"} : ReindexSettle(outcome)
    \/ \E value \in InputValues : Submit(value)
    \/ \E i \in 1..Len(exchanges) : FetchReject(i)
    \/ \E i \in 1..Len(exchanges) : FetchResolve(i)
    \/ \E i \in 1..Len(exchanges), body \in Bodies : JsonSettle(i, body)

Spec == Init /\ [][Next]_vars

\* An await of exchange i settles: its fetch rejects or resolves, or its
\* res.json() settles.
Settle(i) ==
    /\ i \in 1..Len(exchanges)
    /\ \/ FetchReject(i)
       \/ FetchResolve(i)
       \/ \E body \in Bodies : JsonSettle(i, body)

\* Every issued chat request eventually responds or fails, and the event
\* loop then resumes the handler that awaits it.
SpecLive ==
    /\ Init
    /\ [][Next]_vars
    /\ \A i \in 1..MaxSubmits : WF_vars(Settle(i))

---------------------------------------------------------------------------
(* formatText applied to one argument. *)

InitFormat ==
    /\ WidgetInit
    /\ metaToken = [present |-> FALSE, content |-> <<>>]
    /\ fmtText \in FormatInputs
    /\ fmtHtml = <<>>
    /\ fmtPc = "call"

ApplyFormat ==
    /\ fmtPc = "call"
    /\ fmtHtml' = formatText(fmtText)
    /\ fmtPc' = "done"
    /\ UNCHANGED <<fmtText, open, reindexed, inputValue, messages, metaToken,
                   reindexReqs, exchanges, opens, last>>

NextFormat == ApplyFormat

SpecFormat == InitFormat /\ [][NextFormat]_vars

---------------------------------------------------------------------------
(* Properties. *)

\* A text that is empty or made of white space only.
IsBlank(s) == \A k \in 1..Len(s) : s[k] \in WhiteSpace

\* A JSON value that JavaScript treats as false.
IsFalsy(v) ==
    \/ v.type \in {"undefined", "null"}
    \/ v.type = "string" /\ v.str = <<>>
    \/ v.type = "number" /\ v.num = 0

\* The message most recently appended to the message list.
LastMessage == messages[Len(messages)]

\* Number of messages of one origin in the message list.
CountFrom(from) ==
    Cardinality({k \in 1..Len(messages) : messages[k].from = from})

\* C1: at most one POST /assistant/reindex request is ever issued; none is
\* issued before the toggle first opens the panel, and exactly one has been
\* issued from that first opening on, however many openings follow and
\* whatever became of the request.
ReindexAtMostOnce ==
    /\ Len(reindexReqs) <= 1
    /\ (opens = 0 => reindexReqs = <<>>)
    /\ (opens >= 1 => Len(reindexReqs) = 1)

\* C1 witness: the toggle has opened the panel three times or more
\* (open, close, open, close, open) and the one request has failed.
ReindexOnceAfterManyOpens ==
    /\ opens = MaxOpens
    /\ open
    /\ Len(reindexReqs) = 1
    /\ reindexReqs[1].status = "failed"

\* C2: a submit whose input is empty or white space only appends no
\* message, starts no exchange (so sends no chat request) and leaves the
\* panel state, the reindex flag and the reindex requests unchanged.
BlankSubmitNoOp ==
    [][(last'.ev = "submit" /\ IsBlank(last'.input)) =>
          UNCHANGED <<messages, exchanges, open, reindexed, reindexReqs>>]_vars

\* C2 witness: a submit of white space only has run on an open panel that
\* already shows messages.
BlankSubmitSeen ==
    /\ last.ev = "submit"
    /\ last.input # <<>>
    /\ IsBlank(last.input)
    /\ open
    /\ messages # <<>>

\* C3: every submit with a non-empty trimmed text has exactly one
\* user-origin message of that text in the list, in submission order; the
\* message is in the list and the input is cleared in the state in which
\* the request has just been sent, and the exchange's bot-origin message, if
\* any, comes after it.
UserMessageBeforeRequest ==
    /\ \A i \in 1..Len(exchanges) :
          LET e == exchanges[i]
          IN  /\ e.userIdx \in 1..Len(messages)
              /\ messages[e.userIdx] =
                     [from |-> "user", html |-> formatText(e.text)]
              /\ (e.botIdx # 0 => e.userIdx < e.botIdx)
              /\ \A j \in 1..Len(exchanges) :
                     i < j => e.userIdx < exchanges[j].userIdx
    /\ CountFrom("user") = Len(exchanges)
    /\ (last.ev = "submit" /\ ~IsBlank(last.input) =>
           /\ inputValue = <<>>
           /\ last.xid = Len(exchanges)
           /\ exchanges[last.xid].text = trim(last.input)
           /\ exchanges[last.xid].text # <<>>
           /\ (exchanges[last.xid].sent = 1 =>
                  /\ exchanges[last.xid].pc = "fetch"
                  /\ exchanges[last.xid].userIdx = Len(messages)))

\* C3 witness: a second submit has just sent its request; its user message
\* is the last of the list and no response to it has been handled.
RequestSentAfterUserMessage ==
    /\ last.ev = "submit"
    /\ Len(exchanges) = 2
    /\ exchanges[2].pc = "fetch"
    /\ exchanges[2].sent = 1
    /\ LastMessage.from = "user"

\* The event just handled is a failure of a chat exchange: the fetch
\* rejected, the body was no JSON, or an exception was thrown on the way
\* (no meta tag to read, a null body, an answer that is no string).
ChatFailedNow ==
    \/ last.ev = "fetchReject"
    \/ /\ last.ev = "jsonSettle"
       /\ \/ last.body.kind \in {"nonjson", "null"}
          \/ /\ last.body.kind = "object"
             /\ last.body.answer.type = "number"
             /\ last.body.answer.num # 0
    \/ last.ev = "submit" /\ ~IsBlank(last.input) /\ ~metaToken.present

\* C4: a failed chat exchange appends exactly one bot-origin message, the
\* literal "Error contacting assistant.", and ends the exchange; no
\* exchange sends more than one request or appends more than one bot
\* message.
FailureOneErrorMessage ==
    /\ \A i \in 1..Len(exchanges) :
          /\ exchanges[i].sent <= 1
          /\ exchanges[i].replies <= 1
          /\ (exchanges[i].pc = "done" <=> exchanges[i].replies = 1)
    /\ CountFrom("bot") =
           Cardinality({i \in 1..Len(exchanges) : exchanges[i].replies = 1})
    /\ (ChatFailedNow =>
           /\ LastMessage = [from |-> "bot", html |-> ERROR_TEXT]
           /\ exchanges[last.xid].pc = "done"
           /\ exchanges[last.xid].replies = 1
           /\ exchanges[last.xid].botIdx = Len(messages))

\* C4 witness: the fetch of the first exchange rejected while the second
\* was still in flight, and the error message is the last of the list.
FetchRejectedSeen ==
    /\ last.ev = "fetchReject"
    /\ last.xid = 1
    /\ Len(exchanges) = 2
    /\ exchanges[2].pc = "fetch"
    /\ LastMessage.html = ERROR_TEXT

\* C5 as stated: for a JSON object, an answer field that is present is
\* rendered (the fallback is not used), and an absent one gives the
\* fallback "Sorry, I had trouble answering.".
FallbackOnlyWhenAbsent ==
    (last.ev = "jsonSettle" /\ last.body.kind = "object") =>
        IF last.body.hasAnswer
        THEN /\ LastMessage.html # SORRY_TEXT
             /\ (last.body.answer.type = "string" =>
                    LastMessage.html = formatText(last.body.answer.str))
        ELSE LastMessage.html = SORRY_TEXT

\* C5 amended: for a JSON object, an answer that is a non-empty string is
\* rendered (through formatText); an answer that is absent or falsy (the
\* empty string, null, 0) gives the fallback "Sorry, I had trouble
\* answering.", and the fallback is used in these cases only; an answer
\* that is truthy and no string gives "Error contacting assistant.".
FallbackWhenAbsentOrFalsy ==
    (last.ev = "jsonSettle" /\ last.body.kind = "object") =>
        LET a == last.body.answer
        IN  /\ LastMessage.from = "bot"
            /\ (a.type = "string" /\ a.str # <<>> =>
                   LastMessage.html = formatText(a.str))
            /\ (LastMessage.html = SORRY_TEXT <=>
                   (~last.body.hasAnswer \/ IsFalsy(a)))
            /\ (~IsFalsy(a) /\ a.type # "string" =>
                   LastMessage.html = ERROR_TEXT)

\* C5 witness: a response {"answer": ""} has been handled and the fallback
\* is shown.
EmptyAnswerGivesFallback ==
    /\ last.ev = "jsonSettle"
    /\ last.body = ObjectBody(JsonString(<<>>))
    /\ LastMessage = [from |-> "bot", html |-> SORRY_TEXT]

\* C6: on a page without a csrf-token meta tag every reindex request and
\* the chat request of every non-empty submit is sent, with an empty
\* X-CSRFToken header.
RequestsSentWithEmptyToken ==
    ~metaToken.present =>
        /\ \A i \in 1..Len(reindexReqs) : reindexReqs[i].csrf = <<>>
        /\ (opens >= 1 => Len(reindexReqs) = 1)
        /\ \A i \in 1..Len(exchanges) :
              exchanges[i].sent = 1 /\ exchanges[i].csrf = <<>>

\* C7: two toggles in succession restore the panel's open/closed value and
\* leave the reindex flag true; from the initial CLOSED state they end in
\* CLOSED.
TwoTogglesRestorePanel ==
    [][(last.ev = "toggle" /\ last'.ev = "toggle") =>
          /\ open' = last.open
          /\ reindexed'
          /\ (last.ev = "toggle" /\ ~last.open /\ ~last.reindexed =>
                 ~open' /\ reindexed')]_vars

\* C7 witness: the first two events of the page were toggles; the panel is
\* CLOSED again and the flag is set.
ToggledTwiceFromInitial ==
    /\ last.ev = "toggle"
    /\ last.run = 2
    /\ opens = 1
    /\ ~open
    /\ reindexed
    /\ messages = <<>>

\* C8: close leaves the panel CLOSED, changes nothing when it is CLOSED
\* already, issues no reindex request and leaves the reindex flag, the
\* message list, the exchanges and the input unchanged.
CloseOnlyCloses ==
    [][last'.ev = "close" =>
          /\ ~open'
          /\ (~open => open' = open)
          /\ UNCHANGED <<reindexed, reindexReqs, messages, exchanges,
                         inputValue, opens>>]_vars

\* C8 witness: close has run on a panel the toggle never opened.
CloseBeforeAnyOpen ==
    /\ last.ev = "close"
    /\ ~last.open
    /\ opens = 0
    /\ ~open
    /\ ~reindexed
    /\ reindexReqs = <<>>

\* C9 as stated: only the toggle handler changes open or reindexed.
OnlyToggleMutatesState ==
    [][(open' # open \/ reindexed' # reindexed) => last'.ev = "toggle"]_vars

\* C9 amended: reindexed is changed by the toggle handler only, and open by
\* the toggle and close handlers only; submit and the settling of a reindex
\* or chat request change neither.
OnlyToggleAndCloseMutateState ==
    [][/\ (reindexed' # reindexed => last'.ev = "toggle")
       /\ (open' # open => last'.ev \in {"toggle", "close"})
       /\ (last'.ev \in {"submit", "reindexSettle", "fetchReject",
                         "fetchResolve", "jsonSettle"} =>
              UNCHANGED <<open, reindexed>>)]_vars

\* C9 witness: close has changed open from OPEN to CLOSED.
CloseChangedOpen ==
    /\ last.ev = "close"
    /\ last.open
    /\ ~open

\* C10: formatText of n >= 1 lines "* <item>" is one list container around
\* exactly those n list items in order; "* a\n* b" gives
\* <ul><li>a</li><li>b</li></ul>.
BulletLinesOneList ==
    fmtPc = "done" =>
        /\ \A items \in ItemLists(MaxItems) :
              (items # <<>> /\ fmtText = BulletText(items)) =>
                  fmtHtml = UL_OPEN \o ListItemsMarkup(items) \o UL_CLOSE
        /\ (fmtText = <<"*"," ","a","\n","*"," ","b">> =>
               fmtHtml = <<"<","u","l",">","<","l","i",">","a","<","/","l","i",">",
                           "<","l","i",">","b","<","/","l","i",">","<","/","u","l",">">>)

\* C10 witness: formatText has been applied to "* a\n* b".
TwoBulletsFormatted ==
    /\ fmtPc = "done"
    /\ fmtText = <<"*"," ","a","\n","*"," ","b">>
    /\ Len(fmtHtml) = 29

\* The event just handled completed a chat exchange.
ExchangeCompletedNow == last.ev \in {"fetchReject", "jsonSettle"}

\* C11: bot-origin messages are appended in the order in which exchanges
\* complete: the reply of the exchange that has just completed is the last
\* message of the list, behind the replies of all exchanges completed
\* before it, whatever their submission order; user-origin messages are in
\* submission order.
RepliesInCompletionOrder ==
    /\ \A i, j \in 1..Len(exchanges) :
          i < j => exchanges[i].userIdx < exchanges[j].userIdx
    /\ (ExchangeCompletedNow =>
           /\ exchanges[last.xid].botIdx = Len(messages)
           /\ LastMessage.from = "bot"
           /\ \A j \in 1..Len(exchanges) :
                 j # last.xid => exchanges[j].botIdx < Len(messages))

\* C11 witness: the reply to the second submit stands before the reply to
\* the first, and the two user messages stand in submission order.
SecondReplyBeforeFirst ==
    /\ Len(exchanges) = 2
    /\ exchanges[1].botIdx # 0
    /\ exchanges[2].botIdx # 0
    /\ exchanges[2].botIdx < exchanges[1].botIdx
    /\ exchanges[1].userIdx < exchanges[2].userIdx
    /\ last.xid = 1

\* C12: once the reindex flag is true no event sets it back to false, and
\* no further reindex request is issued, not even after the request failed.
ReindexFlagNeverReset ==
    [][reindexed =>
          /\ reindexed'
          /\ Len(reindexReqs') = Len(reindexReqs)]_vars

\* C12 witness: the reindex request has failed and a later toggle has
\* opened the panel again; the flag is still set and no second request
\* exists.
ReopenedAfterFailedReindex ==
    /\ last.ev = "toggle"
    /\ ~last.open
    /\ last.reindexed
    /\ open
    /\ reindexed
    /\ Len(reindexReqs) = 1
    /\ reindexReqs[1].status = "failed"

\* A reindex request is in flight.
ReindexPending ==
    \E i \in 1..Len(reindexReqs) : reindexReqs[i].status = "pending"

\* C13: while a reindex request is pending, toggle, close and submit are
\* enabled and have their usual effect (toggle flips the panel, close
\* closes it, a non-empty submit appends the user message and starts an
\* exchange); the settling of the request, success or failure, changes
\* nothing but the request's own status.  (A non-empty submit is enabled
\* up to the bound MaxSubmits of the model.)
ReindexFireAndForget ==
    [][/\ (ReindexPending =>
              /\ ENABLED ToggleClick
              /\ ENABLED CloseClick
              /\ \A v \in InputValues :
                    IsBlank(v) \/ Len(exchanges) < MaxSubmits
                        => ENABLED Submit(v))
       /\ (ReindexPending /\ last'.ev = "toggle" =>
              /\ open' = ~open
              /\ UNCHANGED <<reindexed, reindexReqs, messages, exchanges>>)
       /\ (ReindexPending /\ last'.ev = "close" =>
              /\ ~open'
              /\ UNCHANGED <<reindexed, reindexReqs, messages, exchanges>>)
       /\ (ReindexPending /\ last'.ev = "submit" /\ ~IsBlank(last'.input) =>
              /\ Len(exchanges') = Len(exchanges) + 1
              /\ messages'[Len(messages) + 1].from = "user"
              /\ UNCHANGED <<open, reindexed, reindexReqs>>)
       /\ (last'.ev = "reindexSettle" =>
              /\ ReindexPending
              /\ ~ReindexPending'
              /\ UNCHANGED <<open, reindexed, messages, exchanges,
                             inputValue, opens>>)]_vars

\* C13 witness: a non-empty submit has run on a closed panel while the
\* reindex request was pending, and the request is pending still.
SubmitWhileReindexPending ==
    /\ ReindexPending
    /\ last.ev = "submit"
    /\ ~IsBlank(last.input)
    /\ ~open
    /\ exchanges # <<>>

\* C14: every event either leaves the message list unchanged or appends
\* exactly one message at its end.
AppendsExactlyOne ==
    [][\/ messages' = messages
       \/ /\ Len(messages') = Len(messages) + 1
          /\ SubSeq(messages', 1, Len(messages)) = messages]_vars

\* C16: the bot-origin messages are as many as the completed exchanges and
\* the user-origin messages as many as all exchanges, so that the
\* difference is the number of exchanges not yet completed; the bot-origin
\* message of an exchange stands behind its own user-origin message.
BotsFollowUsers ==
    /\ CountFrom("bot") <= CountFrom("user")
    /\ CountFrom("bot") + Cardinality({i \in 1..Len(exchanges) :
                                          exchanges[i].pc # "done"})
           = CountFrom("user")
    /\ \A i \in 1..Len(exchanges) :
          LET e == exchanges[i]
          IN  /\ messages[e.userIdx].from = "user"
              /\ (e.pc = "done" =>
                     /\ e.botIdx \in (e.userIdx + 1)..Len(messages)
                     /\ messages[e.botIdx].from = "bot")
              /\ (e.pc # "done" => e.botIdx = 0)
    /\ \A i, j \in 1..Len(exchanges) :
          (i # j /\ exchanges[i].pc = "done" /\ exchanges[j].pc = "done") =>
              exchanges[i].botIdx # exchanges[j].botIdx

\* C16 witness: two user messages and one bot message, the first exchange
\* still waiting for its response.
OneReplyOutstanding ==
    /\ CountFrom("user") = 2
    /\ CountFrom("bot") = 1
    /\ exchanges[1].pc = "fetch"
    /\ exchanges[2].pc = "done"

\* Some request has failed: the reindex request, or a chat exchange.
SomethingFailed ==
    \/ \E i \in 1..Len(reindexReqs) : reindexReqs[i].status = "failed"
    \/ \E k \in 1..Len(messages) : messages[k].html = ERROR_TEXT

\* C15: provided every issued chat request eventually responds or fails,
\* every non-empty submit is eventually followed by exactly one bot-origin
\* message of its own; no exchange ever has more than one; and after any
\* failure toggle, close and submit are still enabled.
EveryExchangeEndsVisibly ==
    /\ \A i \in 1..MaxSubmits :
          (Len(exchanges) >= i) ~>
              (/\ Len(exchanges) >= i
               /\ exchanges[i].pc = "done"
               /\ exchanges[i].replies = 1
               /\ exchanges[i].botIdx \in 1..Len(messages)
               /\ messages[exchanges[i].botIdx].from = "bot")
    /\ [](\A i \in 1..Len(exchanges) : exchanges[i].replies <= 1)
    /\ [](SomethingFailed =>
             /\ ENABLED ToggleClick
             /\ ENABLED CloseClick
             /\ \A v \in InputValues :
                   IsBlank(v) \/ Len(exchanges) < MaxSubmits
                       => ENABLED Submit(v))

\* C15 witness: both exchanges have ended, one of them by a failure, each
\* with its bot message, and a toggle has run after that.
AllEndedAfterFailure ==
    /\ Len(exchanges) = 2
    /\ \A i \in 1..2 : exchanges[i].pc = "done" /\ exchanges[i].replies = 1
    /\ CountFrom("bot") = 2
    /\ \E k \in 1..Len(messages) : messages[k].html = ERROR_TEXT
    /\ \E k \in 1..Len(messages) :
          messages[k].from = "bot" /\ messages[k].html # ERROR_TEXT
    /\ last.ev = "toggle"

\* The text is: "* a", then k >= 2 newlines and nothing else, then
\* "* b".
TwoListsApart(text) ==
    /\ Len(text) >= 8
    /\ SubSeq(text, 1, 3) = <<"*", " ", "a">>
    /\ SubSeq(text, Len(text) - 2, Len(text)) = <<"*", " ", "b">>
    /\ \A i \in 4..(Len(text) - 3) : text[i] = "\n"

\* C17: for "* a" and "* b" separated by two or more newlines the output has
\* the item a, the close-list/reopen-list markup and the item b in a row.
ListBreakBetweenLists ==
    (fmtPc = "done" /\ TwoListsApart(fmtText)) =>
        Includes(fmtHtml, LI_OPEN \o <<"a">> \o LI_CLOSE \o LIST_BREAK
                              \o LI_OPEN \o <<"b">> \o LI_CLOSE)

\* Index i begins a line of s.
LineStart(s, i) == i = 1 \/ s[i - 1] \in LineTerminators

\* Some line of s begins with "* ".
HasBulletLine(s) ==
    \E i \in 1..Len(s) : LineStart(s, i) /\ StartsWithAt(s, i, <<"*", " ">>)

\* h is a list container around something.
Wrapped(h) ==
    /\ Len(h) >= Len(UL_OPEN) + Len(UL_CLOSE)
    /\ StartsWithAt(h, 1, UL_OPEN)
    /\ StartsWithAt(h, Len(h) - Len(UL_CLOSE) + 1, UL_CLOSE)

\* C18: a text with no line beginning with "* " (and no list-item markup of
\* its own) comes back without a list item and without a list container;
\* so "2 * 3" produces none.
OnlyLineStartBullets ==
    (fmtPc = "done" /\ ~HasBulletLine(fmtText) /\ ~Includes(fmtText, LI_OPEN)) =>
        /\ ~Includes(fmtHtml, LI_OPEN)
        /\ ~Wrapped(fmtHtml)

\* Number of occurrences of pat in s.
Occurrences(s, pat) ==
    Cardinality({i \in 1..Len(s) : StartsWithAt(s, i, pat)})

\* Number of occurrences of pat in s that begin at index p or before.
OccurrencesUpTo(s, pat, p) ==
    Cardinality({i \in 1..p : StartsWithAt(s, i, pat)})

\* The list tags of h match: as many closes as opens, and no close before
\* its open.
Balanced(h) ==
    /\ Occurrences(h, UL_OPEN) = Occurrences(h, UL_CLOSE)
    /\ \A p \in 1..Len(h) :
          OccurrencesUpTo(h, UL_CLOSE, p) <= OccurrencesUpTo(h, UL_OPEN, p)

\* C19: as stated: a result with a list item is one list container, and if
\* the newline-boundary markup is in it as well its list tags do not match.
WrappedBreakMismatched ==
    (fmtPc = "done" /\ Includes(fmtHtml, LI_OPEN)) =>
        /\ Wrapped(fmtHtml)
        /\ (Includes(fmtHtml, LIST_BREAK) => ~Balanced(fmtHtml))

\* C19 amended: a result with a list item is one list container around the
\* replaced text, and its list tags match, each boundary adding one close
\* and one open inside the container; the tags are mismatched (a close
\* before any open) when the boundary markup is produced without any list
\* item, the result then having no container.
WrappedBreakBalanced ==
    fmtPc = "done" =>
        /\ Includes(fmtHtml, LI_OPEN) =>
              /\ Wrapped(fmtHtml)
              /\ fmtHtml = UL_OPEN \o ReplaceChain(fmtText) \o UL_CLOSE
              /\ Occurrences(fmtHtml, UL_OPEN)
                     = 1 + Occurrences(fmtHtml, LIST_BREAK)
              /\ Occurrences(fmtHtml, UL_CLOSE)
                     = 1 + Occurrences(fmtHtml, LIST_BREAK)
              /\ Balanced(fmtHtml)
        /\ (~Includes(fmtHtml, LI_OPEN) /\ Includes(fmtHtml, LIST_BREAK)) =>
              /\ fmtHtml = ReplaceChain(fmtText)
              /\ ~Wrapped(fmtHtml)
              /\ ~Balanced(fmtHtml)

\* C19 witness: formatText has been applied to "* a\n\n\n* b": two items, the
\* boundary between them, one container, tags matching.
TwoListsFormatted ==
    /\ fmtPc = "done"
    /\ fmtText = <<"*"," ","a","\n","\n","\n","*"," ","b">>
    /\ fmtHtml = UL_OPEN \o LI_OPEN \o <<"a">> \o LI_CLOSE \o LIST_BREAK
                     \o LI_OPEN \o <<"b">> \o LI_CLOSE \o UL_CLOSE
    /\ Balanced(fmtHtml)

=============================================================================
